---------------------------- MODULE Spec2Model ----------------------------
(* The request-processing pipeline of the field service: the gin         *)
(* middlewares HandlePanic, RateLimit, Authenticate,                      *)
(* AuthenticateWithoutToken and CheckRole, the signature check            *)
(* validateApiKey and the user client's GetUserByToken.                   *)
(*                                                                        *)
(* A request is a gin.Context: its handler chain, its index into the      *)
(* chain, and the call stack of the handlers that are inside ctx.Next().  *)
EXTENDS Integers, Sequences, FiniteSets, TLC

\* ---------------------------------------------------------------- bounds

\* Request slots (goroutines serving a request).
NumReq == 2
\* config.Config.RateLimiterRequest: admissions per window.
RateLimiterRequest == 1
\* Windows after the first one that the limiter lives through.
MaxWindow == 1

Req == 1..NumReq

\* ------------------------------------------------------------- constants

abortIndex == 63
StatusOK == 200
StatusUnauthorized == 401
StatusTooManyRequests == 429
StatusInternalServerError == 500

Nil == "nil"

\* constants.Error, constants.Success: the body's status field.
ConstError == "error"
ConstSuccess == "success"

\* errConstant.*: the messages of the error values.
ErrInternalServerError == "internal server error"
ErrToManyRequest == "too many requests"
ErrUnauthorized == "unauthorized"
ErrForbidden == "forbidden"

\* constants.Token: the context key GetUserByToken reads.
Token == "token"

\* config.Config.AppName.
AppName == "field-service"

\* The values config.Config.SignatureKey may be loaded with.
SignatureKeys == {"k1", "k2"}

\* ------------------------------------------------------- pure functions

\* SHA-256 followed by hex.EncodeToString (lowercase), on the strings the
\* bounded inputs can build: the real digests.
SHA256Hex ==
    ":k1:" :> "a5d022d90b83e162a6ca8bf332159e0248824a332ea99754c17279a4843cb27e" @@
    ":k1:5" :> "653606dc84b460159d1be970f4ecd9115584ed94a4d057099564dda946e14864" @@
    ":k1:12" :> "091b5688923b3ec09ec2b3a08310e3a43ea2b09ba356047a00e05eea34c6fff0" @@
    ":k2:" :> "556f3052da42ccbdc7585b39761a09fae9831951454460f7ebbfcedd4e919fed" @@
    ":k2:5" :> "183a991ad4ee3d0c6c12b0a8feda02963ef3f027958e6a600d3cb86b323b6681" @@
    ":k2:12" :> "5afab1f3956de2c1eb4cbf4b07dbb4a0635aba940561cac3fa434db14f97750b" @@
    "field-service:k1:" :> "4a3b316736fe982e19c5cf3c1c51f3d380b66fd626fcce4528bcc35685b947af" @@
    "field-service:k1:5" :> "9d04ed18628945d2798e9fe4894fcab769e4fff24ef461739dcaa6341519fbe2" @@
    "field-service:k1:12" :> "681444903dfb23afeb56245250f89901a6743eb749f51765ee24adcb4b018fff" @@
    "field-service:k2:" :> "44307cbb31cbfd637700fe19c53521d8fd6b08dcec46f567770e5a565b7da724" @@
    "field-service:k2:5" :> "94f7b58fa827297a2a89b6fd4c352a4fafb518417006b9f6cbf6ef0b2c5e91b5" @@
    "field-service:k2:12" :> "f7f2d5d524428077a716ac384041d7a8a72635589badf571e1ba339591315c80"

\* utils.GenerateSHA256.
GenerateSHA256(inputString) == SHA256Hex[inputString]

\* fmt.Sprintf("%s:%s:%s", a, b, c).
SprintfKey(a, b, c) == a \o ":" \o b \o ":" \o c

Digit == <<"0", "1", "2", "3", "4", "5", "6", "7", "8", "9">>

\* fmt.Sprintf("%d", n) for n >= 0.
RECURSIVE SprintfD(_)
SprintfD(n) ==
    IF n < 10 THEN Digit[n + 1] ELSE SprintfD(n \div 10) \o Digit[(n % 10) + 1]

\* validateApiKey as it would be with a guard that lets a missing digest
\* through.
validateApiKeyAcceptsEmpty(header, signatureKey) ==
    LET validateKey == SprintfKey(header.XServiceName, signatureKey, header.XRequestAt)
        resultHash == SHA256Hex[validateKey]
    IN  [err |-> IF header.XApiKey # "" /\ header.XApiKey # resultHash
                 THEN ErrUnauthorized ELSE Nil,
         hashes |-> 1]

\* validateApiKey as it would be with an early return on a missing digest.
validateApiKeyEarlyReturn(header, signatureKey) ==
    LET validateKey == SprintfKey(header.XServiceName, signatureKey, header.XRequestAt)
        resultHash == SHA256Hex[validateKey]
    IN  IF header.XApiKey = ""
        THEN [err |-> ErrUnauthorized, hashes |-> 0]
        ELSE [err |-> IF header.XApiKey # resultHash THEN ErrUnauthorized ELSE Nil,
              hashes |-> 1]

\* validateApiKey: the error it returns and the number of digests it
\* computed on the way.
validateApiKey(header, signatureKey) ==
    LET apiKey == header.XApiKey
        requestAt == header.XRequestAt
        serviceName == header.XServiceName
        validateKey == SprintfKey(serviceName, signatureKey, requestAt)
        resultHash == SHA256Hex[validateKey]
    IN  [err |-> IF apiKey # resultHash THEN ErrUnauthorized ELSE Nil,
         hashes |-> 1]

\* slices.Contains.
contains(roles, role) == \E i \in 1..Len(roles) : roles[i] = role


\* ------------------------------------------------------------ input sets

\* A route: the chain the router composed for it and the allow-list its
\* CheckRole stage was built with.
Routes ==
    { [handlers |-> <<"HandlePanic", "RateLimit", "Handler">>,
       roles |-> <<>>],
      [handlers |-> <<"HandlePanic", "RateLimit", "AuthenticateWithoutToken", "Handler">>,
       roles |-> <<>>],
      [handlers |-> <<"HandlePanic", "RateLimit", "Authenticate", "Handler">>,
       roles |-> <<>>],
      [handlers |-> <<"HandlePanic", "RateLimit", "Authenticate", "CheckRole", "Handler">>,
       roles |-> <<"admin">>],
      [handlers |-> <<"HandlePanic", "RateLimit", "AuthenticateWithoutToken", "CheckRole", "Handler">>,
       roles |-> <<"admin", "user">>] }

\* X-Api-Key values a caller sends: none, the digest of field-service:k1:5,
\* the same digest in upper case, the digest of field-service:k2:5.
ApiKeys ==
    { "",
      "9d04ed18628945d2798e9fe4894fcab769e4fff24ef461739dcaa6341519fbe2",
      "9D04ED18628945D2798E9FE4894FCAB769E4FFF24EF461739DCAA6341519FBE2",
      "94f7b58fa827297a2a89b6fd4c352a4fafb518417006b9f6cbf6ef0b2c5e91b5" }

Headers ==
    [Authorization : {"", "Bearer tok"},
     XApiKey : ApiKeys,
     XRequestAt : {"5", "12"},
     XServiceName : {"", "field-service"}]

NoHeader ==
    [Authorization |-> "", XApiKey |-> "", XRequestAt |-> "", XServiceName |-> ""]

\* The values the request's context.Context carries: key/value pairs.
ContextValues == { {}, {<<Token, "tok">>} }

\* What the route's business handler does: answer, or panic.
Business == {"ok", "panic"}

\* time.Now().Unix() at the moment of the identity lookup.
UnixTimes == {5, 12}

\* What the identity service's answer decodes to: a request error, or a
\* status code with the user data of the envelope.
IdentityResponses ==
    { [errs |-> TRUE, status |-> 0, data |-> [Role |-> ""]],
      [errs |-> FALSE, status |-> 401, data |-> [Role |-> ""]] }
    \cup { [errs |-> FALSE, status |-> 200, data |-> [Role |-> ro]] :
             ro \in {"", "admin", "user"} }

NoUser == [Role |-> ""]

NoResponse == [errs |-> FALSE, status |-> 0, data |-> NoUser]

NoOutbound == [state |-> "none", header |-> NoHeader, resp |-> NoResponse]

\* No verdict remembered yet.
NoSeen == [set |-> FALSE, triple |-> <<"", "", "">>, accepted |-> FALSE]

\* A slot that serves no request.
IdleCtx ==
    [phase |-> "idle", handlers |-> <<>>, roles |-> <<>>, header |-> NoHeader,
     values |-> {}, business |-> "ok", index |-> -1, stack |-> <<>>,
     ran |-> <<>>, written |-> <<>>, panicking |-> FALSE, hashed |-> 0,
     lmtErr |-> Nil, lwin |-> -1, outbound |-> NoOutbound, user |-> NoUser,
     userErr |-> Nil,
     cancelled |-> FALSE]

\* ----------------------------------------------------------------- state

VARIABLES
    config,     \* config.Config: SignatureKey and InternalService.User.SignatureKey
    lmt,        \* the limiter: admissions counted in the current window
    ctx,        \* per slot: the gin.Context of the request it serves
    recovered,  \* history: HandlePanic has contained a panic
    seen        \* history: the signature verdict on one earlier request

vars == <<config, lmt, ctx, recovered, seen>>

\* ------------------------------------------------------------ gin.Context

Top(c) == c.stack[Len(c.stack)]

Running(c, fn, pc) ==
    /\ c.phase = "serving"
    /\ ~c.panicking
    /\ c.stack # <<>>
    /\ Top(c).fn = fn
    /\ Top(c).pc = pc

SetPc(c, pc) ==
    IF c.stack = <<>> THEN c ELSE [c EXCEPT !.stack[Len(c.stack)].pc = pc]

\* ctx.Next(): c.index++, then the loop ctxNextLoop runs at the callee's frame.
ctxNext(c) ==
    [c EXCEPT !.index = @ + 1,
              !.stack = Append(SetPc(c, "inNext").stack, [fn |-> "Next", pc |-> "loop"])]

\* One turn of the loop of ctx.Next(): call handlers[index], or leave the
\* loop when index is past the chain (as it is after ctx.Abort()).
ctxNextLoop(c) ==
    IF c.index < Len(c.handlers)
    THEN [c EXCEPT !.stack = Append(@, [fn |-> c.handlers[c.index + 1], pc |-> "start"]),
                   !.ran = Append(@, c.handlers[c.index + 1])]
    ELSE [c EXCEPT !.stack = SubSeq(@, 1, Len(@) - 1),
                   !.phase = IF Len(c.stack) = 1 THEN "done" ELSE @]

\* A handler returns into the loop that called it, which does c.index++.
Return(c) ==
    [c EXCEPT !.stack = SubSeq(@, 1, Len(@) - 1), !.index = @ + 1]

\* ctx.Abort().
ctxAbort(c) == [c EXCEPT !.index = abortIndex]

\* ctx.JSON(code, response.Response{Status, Message}). The entry also
\* records how many stages had been entered when it was written.
ctxJSON(c, code, status, message) ==
    [c EXCEPT !.written = Append(@, [code |-> code,
                                     body |-> [status |-> status, message |-> message],
                                     at |-> Len(c.ran)])]

\* ctx.GetHeader(key) is c.header.key: "" when the header is missing.

\* ctx.Request.Context().Value(key).
ContextValue(c, key) ==
    IF \E p \in c.values : p[1] = key
    THEN (CHOOSE p \in c.values : p[1] = key)[2]
    ELSE Nil


\* ------------------------------------------------------------ middlewares

\* HandlePanic's deferred function as it would be without ctx.Abort().
HandlePanicRecoveredNoAbort(c) ==
    ctxJSON([c EXCEPT !.panicking = FALSE],
            StatusInternalServerError, ConstError, ErrInternalServerError)

\* HandlePanic's deferred function when recover() returns a panic.
HandlePanicRecovered(c) ==
    ctxAbort(ctxJSON([c EXCEPT !.panicking = FALSE],
                     StatusInternalServerError, ConstError, ErrInternalServerError))

\* The frame of the innermost HandlePanic on the stack, 0 when there is none.
GuardFrame(c) ==
    IF \E i \in 1..Len(c.stack) : c.stack[i].fn = "HandlePanic"
    THEN CHOOSE i \in 1..Len(c.stack) :
           /\ c.stack[i].fn = "HandlePanic"
           /\ \A j \in (i + 1)..Len(c.stack) : c.stack[j].fn # "HandlePanic"
    ELSE 0

\* A panic unwinds the stack to HandlePanic's frame, whose deferred function
\* recovers it; HandlePanic then returns.
HandlePanicUnwind(c) ==
    Return(HandlePanicRecovered([c EXCEPT !.stack = SubSeq(@, 1, GuardFrame(c))]))

\* tollbooth.LimitByRequest(lmt, ...): check and count, in one step.
LimitByRequest(l) ==
    IF l.count < RateLimiterRequest
    THEN [lmt |-> [l EXCEPT !.count = @ + 1], err |-> Nil]
    ELSE [lmt |-> l, err |-> ErrToManyRequest]

\* RateLimit as it would be without ctx.Abort().
RateLimitNoAbort(c) ==
    LET rejected == ctxJSON(c, StatusTooManyRequests, ConstError, ErrToManyRequest)
    IN  ctxNext(IF c.lmtErr # Nil THEN rejected ELSE c)

\* RateLimit after LimitByRequest returned c.lmtErr.
RateLimit(c) ==
    LET rejected == ctxAbort(ctxJSON(c, StatusTooManyRequests, ConstError, ErrToManyRequest))
    IN  ctxNext(IF c.lmtErr # Nil THEN rejected ELSE c)

\* responseUnauthorized as it would be without ctx.Abort().
responseUnauthorizedNoAbort(c, message) ==
    ctxJSON(c, StatusUnauthorized, ConstError, message)

responseUnauthorized(c, message) ==
    ctxAbort(ctxJSON(c, StatusUnauthorized, ConstError, message))

\* Authenticate as it would be without the test of the Authorization header.
AuthenticateNoTokenTest(c, signatureKey) ==
    LET v == validateApiKey(c.header, signatureKey)
        c1 == [c EXCEPT !.hashed = @ + v.hashes]
    IN  IF v.err # Nil
        THEN Return(responseUnauthorized(c1, v.err))
        ELSE ctxNext(c1)

Authenticate(c, signatureKey) ==
    LET token == c.header.Authorization
        v == validateApiKey(c.header, signatureKey)
        c1 == [c EXCEPT !.hashed = @ + v.hashes]
    IN  IF token = ""
        THEN Return(responseUnauthorized(c, ErrUnauthorized))
        ELSE IF v.err # Nil
             THEN Return(responseUnauthorized(c1, v.err))
             ELSE ctxNext(c1)

\* AuthenticateWithoutToken as it would be with a replay guard: a header
\* triple that was accepted before is turned away.
AuthenticateWithoutTokenOnce(c, signatureKey) ==
    LET v == validateApiKey(c.header, signatureKey)
        c1 == [c EXCEPT !.hashed = @ + v.hashes]
        replayed == /\ seen.set
                    /\ seen.accepted
                    /\ seen.triple = <<c.header.XApiKey, c.header.XServiceName,
                                       c.header.XRequestAt>>
    IN  IF v.err # Nil \/ replayed
        THEN Return(responseUnauthorized(c1, ErrUnauthorized))
        ELSE ctxNext(c1)

AuthenticateWithoutToken(c, signatureKey) ==
    LET v == validateApiKey(c.header, signatureKey)
        c1 == [c EXCEPT !.hashed = @ + v.hashes]
    IN  IF v.err # Nil
        THEN Return(responseUnauthorized(c1, v.err))
        ELSE ctxNext(c1)

\* GetUserByToken as it would be if X-Request-At were taken from a second
\* reading of the clock, after the digest was computed.
GetUserByTokenSendTwoClocks(c, userSignatureKey, unixTime) ==
    LET generateAPIKey == SprintfKey(AppName, userSignatureKey, SprintfD(unixTime))
        apiKey == GenerateSHA256(generateAPIKey)
        token == ContextValue(c, Token)
        later == CHOOSE t \in UnixTimes : t # unixTime
    IN  IF token = Nil
        THEN [c EXCEPT !.panicking = TRUE]
        ELSE SetPc([c EXCEPT !.outbound =
                        [state |-> "inflight",
                         header |-> [Authorization |-> "Bearer " \o token,
                                     XServiceName |-> AppName,
                                     XApiKey |-> apiKey,
                                     XRequestAt |-> SprintfD(later)],
                         resp |-> NoResponse]],
                   "await")

\* GetUserByToken up to the sending of the request: the signature headers,
\* the token read from the context (a failed type assertion panics), the
\* outbound request.
GetUserByTokenSend(c, userSignatureKey, unixTime) ==
    LET generateAPIKey == SprintfKey(AppName, userSignatureKey, SprintfD(unixTime))
        apiKey == GenerateSHA256(generateAPIKey)
        token == ContextValue(c, Token)
    IN  IF token = Nil
        THEN [c EXCEPT !.panicking = TRUE]
        ELSE SetPc([c EXCEPT !.outbound =
                        [state |-> "inflight",
                         header |-> [Authorization |-> "Bearer " \o token,
                                     XServiceName |-> AppName,
                                     XApiKey |-> apiKey,
                                     XRequestAt |-> SprintfD(unixTime)],
                         resp |-> NoResponse]],
                   "await")

\* GetUserByToken from EndStruct on: what it returns for a response.
GetUserByTokenResult(resp) ==
    IF resp.errs
    THEN [user |-> NoUser, err |-> "request error"]
    ELSE IF resp.status # StatusOK
         THEN [user |-> NoUser, err |-> "user response"]
         ELSE [user |-> resp.data, err |-> Nil]

\* CheckRole as it would be without the allow-list test.
CheckRoleNoRoleTest(c) ==
    LET got == GetUserByTokenResult(c.outbound.resp)
        c1 == [c EXCEPT !.user = got.user, !.userErr = got.err]
    IN  IF got.err # Nil
        THEN Return(responseUnauthorized(c1, ErrUnauthorized))
        ELSE ctxNext(c1)

\* CheckRole as it would be with 403 for a role outside the allow-list.
CheckRoleForbidden403(c) ==
    LET got == GetUserByTokenResult(c.outbound.resp)
        c1 == [c EXCEPT !.user = got.user, !.userErr = got.err]
    IN  IF got.err # Nil
        THEN Return(responseUnauthorized(c1, ErrUnauthorized))
        ELSE IF ~contains(c.roles, got.user.Role)
             THEN Return(ctxAbort(ctxJSON(c1, 403, ConstError, ErrForbidden)))
             ELSE ctxNext(c1)

\* CheckRole once GetUserByToken has returned.
CheckRole(c) ==
    LET got == GetUserByTokenResult(c.outbound.resp)
        c1 == [c EXCEPT !.user = got.user, !.userErr = got.err]
    IN  IF got.err # Nil
        THEN Return(responseUnauthorized(c1, ErrUnauthorized))
        ELSE IF ~contains(c.roles, got.user.Role)
             THEN Return(responseUnauthorized(c1, ErrForbidden))
             ELSE ctxNext(c1)

\* The route's business handler: it answers, or it panics.
Handler(c) ==
    IF c.business = "panic"
    THEN [c EXCEPT !.panicking = TRUE]
    ELSE Return(ctxJSON(c, StatusOK, ConstSuccess, "OK"))


\* --------------------------------------------------------------- actions

Init ==
    /\ config \in [SignatureKey : SignatureKeys, UserSignatureKey : SignatureKeys]
    /\ lmt = [count |-> 0, window |-> 0]
    /\ ctx = [r \in Req |-> IdleCtx]
    /\ recovered = FALSE
    /\ seen = NoSeen

\* The engine takes a request: it builds the context and calls ctx.Next().
Serve(r, route, header, values, business) ==
    ctx' = [ctx EXCEPT ![r] =
              ctxNext([IdleCtx EXCEPT !.phase = "serving",
                                      !.handlers = route.handlers,
                                      !.roles = route.roles,
                                      !.header = header,
                                      !.values = values,
                                      !.business = business])]

\* A request arrives while no other is being served.
Arrive(r) ==
    /\ \A q \in Req : ctx[q].phase = "idle"
    /\ \E route \in Routes, header \in Headers, values \in ContextValues,
          business \in Business :
         Serve(r, route, header, values, business)
    /\ UNCHANGED <<config, lmt, recovered, seen>>

\* A request of a burst arrives, whatever the other requests are doing, on
\* the route that is only rate limited.
ArriveBurst(r) ==
    /\ ctx[r].phase = "idle"
    /\ \E route \in Routes :
         /\ route.handlers = <<"HandlePanic", "RateLimit", "Handler">>
         /\ Serve(r, route, NoHeader, {}, "ok")
    /\ UNCHANGED <<config, lmt, recovered, seen>>

StepNext(r) ==
    /\ Running(ctx[r], "Next", "loop")
    /\ ctx' = [ctx EXCEPT ![r] = ctxNextLoop(ctx[r])]
    /\ UNCHANGED <<config, lmt, recovered, seen>>

\* HandlePanic: install the deferred function, call ctx.Next().
StepHandlePanic(r) ==
    /\ Running(ctx[r], "HandlePanic", "start")
    /\ ctx' = [ctx EXCEPT ![r] = ctxNext(ctx[r])]
    /\ UNCHANGED <<config, lmt, recovered, seen>>

\* A panic reaches HandlePanic's deferred function.
StepRecover(r) ==
    /\ ctx[r].phase = "serving"
    /\ ctx[r].panicking
    /\ GuardFrame(ctx[r]) > 0
    /\ ctx' = [ctx EXCEPT ![r] = HandlePanicUnwind(ctx[r])]
    /\ recovered' = TRUE
    /\ UNCHANGED <<config, lmt, seen>>

StepLimitByRequest(r) ==
    /\ Running(ctx[r], "RateLimit", "start")
    /\ LET res == LimitByRequest(lmt)
       IN  /\ lmt' = res.lmt
           /\ ctx' = [ctx EXCEPT ![r] =
                        SetPc([ctx[r] EXCEPT !.lmtErr = res.err, !.lwin = lmt.window],
                              "limited")]
    /\ UNCHANGED <<config, recovered, seen>>

StepRateLimit(r) ==
    /\ Running(ctx[r], "RateLimit", "limited")
    /\ ctx' = [ctx EXCEPT ![r] = RateLimit(ctx[r])]
    /\ UNCHANGED <<config, lmt, recovered, seen>>

StepAuthenticate(r) ==
    /\ Running(ctx[r], "Authenticate", "start")
    /\ ctx' = [ctx EXCEPT ![r] = Authenticate(ctx[r], config.SignatureKey)]
    /\ UNCHANGED <<config, lmt, recovered, seen>>

StepAuthenticateWithoutToken(r) ==
    /\ Running(ctx[r], "AuthenticateWithoutToken", "start")
    /\ ctx' = [ctx EXCEPT ![r] = AuthenticateWithoutToken(ctx[r], config.SignatureKey)]
    /\ UNCHANGED <<config, lmt, recovered, seen>>

\* CheckRole calls GetUserByToken, which sends the lookup or panics.
StepGetUserByToken(r) ==
    /\ Running(ctx[r], "CheckRole", "start")
    /\ \E unixTime \in UnixTimes :
         ctx' = [ctx EXCEPT ![r] =
                   GetUserByTokenSend(ctx[r], config.UserSignatureKey, unixTime)]
    /\ UNCHANGED <<config, lmt, recovered, seen>>

\* The identity service answers (it may never do so).
IdentityRespond(r) ==
    /\ Running(ctx[r], "CheckRole", "await")
    /\ ctx[r].outbound.state = "inflight"
    /\ \E resp \in IdentityResponses :
         ctx' = [ctx EXCEPT ![r].outbound.state = "answered",
                            ![r].outbound.resp = resp]
    /\ UNCHANGED <<config, lmt, recovered, seen>>

StepCheckRole(r) ==
    /\ Running(ctx[r], "CheckRole", "await")
    /\ ctx[r].outbound.state = "answered"
    /\ ctx' = [ctx EXCEPT ![r] = CheckRole(ctx[r])]
    /\ UNCHANGED <<config, lmt, recovered, seen>>

StepHandler(r) ==
    /\ Running(ctx[r], "Handler", "start")
    /\ ctx' = [ctx EXCEPT ![r] = Handler(ctx[r])]
    /\ UNCHANGED <<config, lmt, recovered, seen>>

\* ctx.Next() has returned into a middleware, which has nothing left to do
\* (HandlePanic's deferred function finds no panic) and returns.
StepReturn(r) ==
    /\ ctx[r].phase = "serving"
    /\ ~ctx[r].panicking
    /\ ctx[r].stack # <<>>
    /\ Top(ctx[r]).pc = "inNext"
    /\ ctx' = [ctx EXCEPT ![r] = Return(ctx[r])]
    /\ UNCHANGED <<config, lmt, recovered, seen>>

\* The client goes away or the deadline passes while CheckRole waits for the
\* identity service: the request's context is cancelled. Nothing in the
\* chain or in GetUserByToken reads ctx.Done(), and the outbound request was
\* built without the context.
Cancel(r) ==
    /\ Running(ctx[r], "CheckRole", "await")
    /\ ~ctx[r].cancelled
    /\ ctx' = [ctx EXCEPT ![r].cancelled = TRUE]
    /\ UNCHANGED <<config, lmt, recovered, seen>>

\* The response is out; the slot is free again.
Finish(r) ==
    /\ ctx[r].phase = "done"
    /\ ctx' = [ctx EXCEPT ![r] = IdleCtx]
    /\ UNCHANGED <<config, lmt, recovered, seen>>

\* The limiter's window ends.
WindowTick ==
    /\ lmt.window < MaxWindow
    /\ lmt' = [count |-> 0, window |-> lmt.window + 1]
    /\ UNCHANGED <<config, ctx, recovered, seen>>

Next ==
    \/ \E r \in Req : Arrive(r)
    \/ \E r \in Req : StepNext(r)
    \/ \E r \in Req : StepHandlePanic(r)
    \/ \E r \in Req : StepRecover(r)
    \/ \E r \in Req : StepLimitByRequest(r)
    \/ \E r \in Req : StepRateLimit(r)
    \/ \E r \in Req : StepAuthenticate(r)
    \/ \E r \in Req : StepAuthenticateWithoutToken(r)
    \/ \E r \in Req : StepGetUserByToken(r)
    \/ \E r \in Req : IdentityRespond(r)
    \/ \E r \in Req : StepCheckRole(r)
    \/ \E r \in Req : StepHandler(r)
    \/ \E r \in Req : StepReturn(r)
    \/ \E r \in Req : Cancel(r)
    \/ \E r \in Req : Finish(r)
    \/ WindowTick

Spec == Init /\ [][Next]_vars

\* A burst: concurrent requests against the limiter.
NextBurst ==
    \/ \E r \in Req : ArriveBurst(r)
    \/ \E r \in Req : StepNext(r)
    \/ \E r \in Req : StepHandlePanic(r)
    \/ \E r \in Req : StepLimitByRequest(r)
    \/ \E r \in Req : StepRateLimit(r)
    \/ \E r \in Req : StepHandler(r)
    \/ \E r \in Req : StepReturn(r)
    \/ WindowTick

SpecBurst == Init /\ [][NextBurst]_vars


\* ---------------------------------------------------------------- claims

Served == {r \in Req : ctx[r].phase # "idle"}

Range(seq) == {seq[i] : i \in 1..Len(seq)}

\* The place of stage fn in the chain, 0 when the route has no such stage.
Pos(c, fn) ==
    IF fn \in Range(c.handlers)
    THEN CHOOSE i \in 1..Len(c.handlers) : c.handlers[i] = fn
    ELSE 0

\* The place of the route's signature stage, 0 when it has none.
AuthPos(c) ==
    IF Pos(c, "Authenticate") > 0 THEN Pos(c, "Authenticate")
    ELSE Pos(c, "AuthenticateWithoutToken")

\* Stage i has been entered and has made its decision: it is no longer
\* running its own code before ctx.Next() or its return.
Decided(c, i) ==
    /\ i > 0
    /\ Len(c.ran) >= i
    /\ ~(/\ Len(c.ran) = i
         /\ c.stack # <<>>
         /\ Top(c).fn = c.handlers[i]
         /\ Top(c).pc # "inNext")

\* Stage i has passed the request on: the stage after it has been entered,
\* or the loop of its ctx.Next() is about to enter it.
Proceeded(c, i) ==
    \/ Len(c.ran) > i
    \/ /\ Len(c.ran) = i
       /\ c.stack # <<>>
       /\ Top(c).fn = "Next"
       /\ c.index = i
       /\ i < Len(c.handlers)

Rejection(code, message, i) ==
    [code |-> code, body |-> [status |-> ConstError, message |-> message], at |-> i]

\* C1: a rejection (429 by RateLimit, 401 by Authenticate,
\* AuthenticateWithoutToken or CheckRole) is written by the stage that was
\* entered last, and no stage is entered after it was written.
C1_RejectionIsTerminal ==
    \A r \in Served :
      LET c == ctx[r] IN
      \A k \in 1..Len(c.written) :
        LET w == c.written[k] IN
        w.code \in {StatusUnauthorized, StatusTooManyRequests} =>
          /\ w.at >= 1
          /\ Len(c.ran) = w.at
          /\ c.ran[w.at] \in {"RateLimit", "Authenticate",
                              "AuthenticateWithoutToken", "CheckRole"}
          /\ (w.code = StatusTooManyRequests <=> c.ran[w.at] = "RateLimit")

\* RateLimit rejected a request and called ctx.Next() after ctx.Abort(): the
\* request is through and nothing after RateLimit was entered.
C1_Witness ==
    \E r \in Served :
      /\ ctx[r].phase = "done"
      /\ ctx[r].lmtErr # Nil
      /\ Len(ctx[r].written) = 1
      /\ ctx[r].written[1].code = StatusTooManyRequests
      /\ ctx[r].ran = <<"HandlePanic", "RateLimit">>
      /\ Len(ctx[r].handlers) > 2

\* C2: when identity resolution fails CheckRole answers 401 "unauthorized"
\* and aborts, and no run of CheckRole/GetUserByToken ends in a panic.
C2_ResolutionFailureNeverPanics ==
    \A r \in Served :
      LET c == ctx[r] IN
      /\ (c.stack # <<>> /\ Top(c).fn = "CheckRole") => ~c.panicking
      /\ c.userErr # Nil =>
           /\ c.written = <<Rejection(StatusUnauthorized, ErrUnauthorized,
                                      Pos(c, "CheckRole"))>>
           /\ c.index >= abortIndex

\* CheckRole has an identity: GetUserByToken returned a user and no error,
\* and CheckRole has acted on it.
Resolved(c) ==
    /\ c.outbound.state = "answered"
    /\ c.userErr = Nil
    /\ ~Running(c, "CheckRole", "await")

RoleAllowed(c) == c.user.Role \in Range(c.roles)

ExpectedApiKey(c) ==
    GenerateSHA256(c.header.XServiceName \o ":" \o config.SignatureKey \o ":"
                   \o c.header.XRequestAt)

\* C4: past Authenticate or AuthenticateWithoutToken the next handler is
\* entered only if X-Api-Key equals the lowercase hex SHA-256 of
\* serviceName:signatureKey:requestAt; any other X-Api-Key is answered 401.
C4_OnlyMatchingDigestPasses ==
    \A r \in Served :
      LET c == ctx[r]
          i == AuthPos(c)
      IN  Decided(c, i) =>
            /\ Len(c.ran) > i => c.header.XApiKey = ExpectedApiKey(c)
            /\ c.header.XApiKey # ExpectedApiKey(c) =>
                 /\ c.written = <<Rejection(StatusUnauthorized, ErrUnauthorized, i)>>
                 /\ Len(c.ran) = i

\* The right digest in upper case is turned away.
C4_Witness ==
    \E r \in Served :
      /\ ctx[r].phase = "done"
      /\ Pos(ctx[r], "AuthenticateWithoutToken") > 0
      /\ config.SignatureKey = "k1"
      /\ ctx[r].header.XServiceName = "field-service"
      /\ ctx[r].header.XRequestAt = "5"
      /\ ctx[r].header.XApiKey =
           "9D04ED18628945D2798E9FE4894FCAB769E4FFF24EF461739DCAA6341519FBE2"
      /\ ctx[r].written = <<Rejection(StatusUnauthorized, ErrUnauthorized, 3)>>

\* validateApiKey has run for the request: its stage has decided, and the
\* stage is not an Authenticate that stopped at the missing token.
Validated(c) ==
    /\ Decided(c, AuthPos(c))
    /\ (Pos(c, "Authenticate") > 0 => c.header.Authorization # "")

\* C5 as stated: a missing X-Api-Key is answered 401 without the digest
\* being computed.
C5_MissingDigestSkipsHash ==
    \A r \in Served :
      LET c == ctx[r] IN
      (Validated(c) /\ c.header.XApiKey = "") =>
        /\ c.written = <<Rejection(StatusUnauthorized, ErrUnauthorized, AuthPos(c))>>
        /\ c.hashed = 0

\* C5 amended: a missing X-Api-Key is answered 401 and the next handler is
\* not entered; the digest is computed all the same, once.
C5_MissingDigestUnauthorized ==
    \A r \in Served :
      LET c == ctx[r] IN
      (Validated(c) /\ c.header.XApiKey = "") =>
        /\ c.written = <<Rejection(StatusUnauthorized, ErrUnauthorized, AuthPos(c))>>
        /\ Len(c.ran) = AuthPos(c)
        /\ c.hashed = 1

C5_Witness ==
    \E r \in Served :
      /\ ctx[r].phase = "done"
      /\ Validated(ctx[r])
      /\ ctx[r].header.XApiKey = ""
      /\ ctx[r].header.Authorization # ""
      /\ Pos(ctx[r], "Authenticate") > 0


\* C6: of the requests the limiter decided on in one window, at most
\* RateLimiterRequest are passed on by RateLimit; every other one is
\* answered 429 "too many requests" and goes no further.
C6_BurstWithinBudget ==
    /\ \A w \in 0..MaxWindow :
         Cardinality({r \in Served :
                        /\ ctx[r].lwin = w
                        /\ Proceeded(ctx[r], Pos(ctx[r], "RateLimit"))})
           <= RateLimiterRequest
    /\ \A r \in Served :
         LET c == ctx[r]
             i == Pos(c, "RateLimit")
         IN  Decided(c, i) =>
               \/ Proceeded(c, i)
               \/ /\ c.written = <<Rejection(StatusTooManyRequests, ErrToManyRequest, i)>>
                  /\ Len(c.ran) = i

\* Two requests of one window are through: one reached the business
\* handler, the other was answered 429.
C6_Witness ==
    \E r1, r2 \in Served :
      /\ r1 # r2
      /\ ctx[r1].phase = "done" /\ ctx[r2].phase = "done"
      /\ ctx[r1].lwin = ctx[r2].lwin
      /\ "Handler" \in Range(ctx[r1].ran)
      /\ ctx[r2].written = <<Rejection(StatusTooManyRequests, ErrToManyRequest, 2)>>

\* A panic was raised while the request was served: by the business
\* handler, or by GetUserByToken on a context without token.
PanicRaised(c) ==
    \/ "Handler" \in Range(c.ran) /\ c.business = "panic"
    \/ "CheckRole" \in Range(c.ran) /\ c.values = {}

SignedWithoutToken(c) ==
    /\ c.header.XApiKey = ExpectedApiKey(c)
    /\ c.header.Authorization = ""

\* C8: a request with valid signature headers and no Authorization header
\* passes AuthenticateWithoutToken; Authenticate answers it 401 before the
\* signature is looked at, and the next handler is not entered.
C8_TokenRequiredOnlyByAuthenticate ==
    \A r \in Served :
      LET c == ctx[r]
          i == AuthPos(c)
      IN  (SignedWithoutToken(c) /\ Decided(c, i)) =>
            IF Pos(c, "AuthenticateWithoutToken") > 0
            THEN Proceeded(c, i) /\ c.hashed = 1
            ELSE /\ c.written = <<Rejection(StatusUnauthorized, ErrUnauthorized, i)>>
                 /\ Len(c.ran) = i
                 /\ c.hashed = 0

C8_Witness ==
    \E r \in Served :
      /\ ctx[r].phase = "done"
      /\ SignedWithoutToken(ctx[r])
      /\ Pos(ctx[r], "Authenticate") > 0
      /\ ctx[r].written = <<Rejection(StatusUnauthorized, ErrUnauthorized, 3)>>

\* C9: when the request's context is cancelled while CheckRole waits in
\* GetUserByToken, the identity lookup is cancelled too: it is not left in
\* flight.
C9_CancelReachesLookup ==
    \A r \in Served :
      (ctx[r].cancelled /\ Running(ctx[r], "CheckRole", "await")) =>
        ctx[r].outbound.state # "inflight"

\* C10: every response that is not the business handler's has status field
\* "error" and one of the pairs 401 "unauthorized", 401 "forbidden",
\* 429 "too many requests", 500 "internal server error", each for its cause.
C10_StatusMessagePairs ==
    \A r \in Served :
      LET c == ctx[r] IN
      /\ \A k \in 1..Len(c.written) :
           LET w == c.written[k] IN
           \/ w.code = StatusOK /\ w.at >= 1 /\ c.ran[w.at] = "Handler"
           \/ /\ w.body.status = "error"
              /\ <<w.code, w.body.message>> \in
                   { <<401, "unauthorized">>, <<401, "forbidden">>,
                     <<429, "too many requests">>, <<500, "internal server error">> }
      /\ (Resolved(c) /\ ~RoleAllowed(c)) =>
           c.written = <<[code |-> 401,
                          body |-> [status |-> "error", message |-> "forbidden"],
                          at |-> Pos(c, "CheckRole")]>>
      /\ c.userErr # Nil =>
           c.written = <<[code |-> 401,
                          body |-> [status |-> "error", message |-> "unauthorized"],
                          at |-> Pos(c, "CheckRole")]>>
      /\ (c.lmtErr # Nil /\ Decided(c, Pos(c, "RateLimit"))) =>
           c.written = <<[code |-> 429,
                          body |-> [status |-> "error", message |-> "too many requests"],
                          at |-> Pos(c, "RateLimit")]>>
      /\ (Decided(c, AuthPos(c)) /\ ~Proceeded(c, AuthPos(c))) =>
           c.written = <<[code |-> 401,
                          body |-> [status |-> "error", message |-> "unauthorized"],
                          at |-> AuthPos(c)]>>
      /\ (c.phase = "done" /\ PanicRaised(c)) =>
           c.written[1].code = 500 /\ c.written[1].body.message = "internal server error"

\* A role outside the allow-list was answered 401 "forbidden".
C10_Witness ==
    \E r \in Served :
      /\ ctx[r].phase = "done"
      /\ Resolved(ctx[r])
      /\ ~RoleAllowed(ctx[r])
      /\ ctx[r].written[1].code = 401
      /\ ctx[r].written[1].body.message = "forbidden"


\* The three signature headers of a request.
Triple(header) == <<header.XApiKey, header.XServiceName, header.XRequestAt>>

\* The signature stage let the request through.
Accepted(c) == Proceeded(c, AuthPos(c))

\* A request arrives, while no other is being served, on a route whose only
\* gate is the signature stage.
ArriveReplay(r) ==
    /\ \A q \in Req : ctx[q].phase = "idle"
    /\ \E route \in Routes, header \in Headers :
         /\ "CheckRole" \notin Range(route.handlers)
         /\ \/ "Authenticate" \in Range(route.handlers)
            \/ "AuthenticateWithoutToken" \in Range(route.handlers)
         /\ Serve(r, route, header, {}, "ok")
    /\ UNCHANGED <<config, lmt, recovered, seen>>

\* The response is out and the slot is free again; what validateApiKey
\* decided for the request's signature headers is remembered.
FinishSeen(r) ==
    /\ ctx[r].phase = "done"
    /\ Validated(ctx[r])
    /\ seen' = [set |-> TRUE, triple |-> Triple(ctx[r].header),
                accepted |-> Accepted(ctx[r])]
    /\ ctx' = [ctx EXCEPT ![r] = IdleCtx]
    /\ UNCHANGED <<config, lmt, recovered>>

NextReplay ==
    \/ \E r \in Req : ArriveReplay(r)
    \/ \E r \in Req : StepNext(r)
    \/ \E r \in Req : StepHandlePanic(r)
    \/ \E r \in Req : StepLimitByRequest(r)
    \/ \E r \in Req : StepRateLimit(r)
    \/ \E r \in Req : StepAuthenticate(r)
    \/ \E r \in Req : StepAuthenticateWithoutToken(r)
    \/ \E r \in Req : StepHandler(r)
    \/ \E r \in Req : StepReturn(r)
    \/ \E r \in Req : Finish(r)
    \/ \E r \in Req : FinishSeen(r)
    \/ WindowTick

\* Requests one after the other, with the verdict on an earlier one kept.
SpecReplay == Init /\ [][NextReplay]_vars

C12_LookupCarriesInboundToken ==
    \A r \in Served :
      LET c == ctx[r] IN
      (/\ Pos(c, "Authenticate") > 0
       /\ "CheckRole" \in Range(c.ran)
       /\ ~Running(c, "CheckRole", "start")) =>
        /\ c.outbound.state # "none"
        /\ c.outbound.header.Authorization = c.header.Authorization


\* C13: when GetUserByToken returns a user and no error the user's role is
\* not the empty string, and CheckRole passes on no request whose resolved
\* role is empty.
C13_ResolvedRoleNonEmpty ==
    \A r \in Served :
      LET c == ctx[r]
          got == GetUserByTokenResult(c.outbound.resp)
      IN  /\ (c.outbound.state = "answered" /\ got.err = Nil) => got.user.Role # ""
          /\ (Resolved(c) /\ c.user.Role = "") => ~Proceeded(c, Pos(c, "CheckRole"))

\* C14: the signature headers GetUserByToken puts on the lookup pass
\* validateApiKey under a verifier key exactly when that key is the key the
\* lookup was signed with.
C14_SignVerifyRoundTrip ==
    \A r \in Served :
      LET c == ctx[r] IN
      c.outbound.state # "none" =>
        /\ c.outbound.header.XServiceName = AppName
        /\ \A k \in SignatureKeys :
             (validateApiKey(c.outbound.header, k).err = Nil)
               <=> (k = config.UserSignatureKey)

C14_Witness ==
    \E r \in Served :
      /\ ctx[r].outbound.state = "inflight"
      /\ config.SignatureKey # config.UserSignatureKey
      /\ validateApiKey(ctx[r].outbound.header, config.UserSignatureKey).err = Nil
      /\ validateApiKey(ctx[r].outbound.header, config.SignatureKey).err # Nil

=============================================================================
